---- MODULE Spec2Model ----
(***************************************************************************)
(* A model of the ESG panel preparation pipeline (src/src/prep_data.py,    *)
(* src/src/config.py): header normalisation, header location, sheet        *)
(* reading, panel assembly and group-wise z-scores.                        *)
(*                                                                         *)
(* Text is a sequence of one-character strings, so that str.strip, lower,  *)
(* re.sub and f"{col}_z" are computed on characters.                       *)
(* A raw cell value is a record [k, s, n]:                                 *)
(*   k = "none"  Python None                                               *)
(*   k = "nan"   float NaN (an empty spreadsheet cell, a missing value)    *)
(*   k = "str"   text s                                                    *)
(*   k = "num"   the number n                                              *)
(*   k = "date"  a datetime, n = year*10000 + month*100 + day              *)
(***************************************************************************)
EXTENDS Integers, Sequences, FiniteSets, TLC

VARIABLES
    n_in,      \* _norm: the argument s
    n_out,     \* _norm: the value returned for n_in
    n_again,   \* _norm: the value returned for _norm(n_in)
    n_pc,      \* "init" | "once" | "twice"
    h_sheet,   \* find_header_row: the sheet read, [name, pre, rows]
    h_file,    \* find_header_row: file_path
    h_start,   \* find_header_row: start_row
    h_span,    \* find_header_row: max_scan_rows
    h_ret,     \* find_header_row: what the call gave, [ok, row, err]
    h_pc,      \* "idle" | "call" | "returned" | "raised"
    r_sheet,   \* read_firm_sheet: the sheet read
    r_ret,     \* read_firm_sheet: what the call gave, [ok, df, err]
    r_pc,      \* "idle" | "call" | "returned" | "raised"
    z_df,      \* add_esg_zscores: the panel object the caller passes
    z_arg,     \* add_esg_zscores: the value of that panel when it was passed
    z_cols,    \* add_esg_zscores: esg_cols
    z_ret,     \* add_esg_zscores: what the call gave, [ok, df, arg, err]
    z_pc,      \* "idle" | "call" | "returned" | "raised"
    files,     \* the two workbooks: file -> sequence of sheets
    m_pc,      \* main: "idle" | "start" | "reading" | "bank_built" | "oil_built"
               \*       | "bank_z" | "oil_z" | "done" | "raised"
    b_path,    \* build_panel: xlsx_path
    b_label,   \* build_panel: sector_label
    b_firms,   \* build_panel: list_firm_sheets(xlsx_path)
    b_i,       \* build_panel: how many firms the loop has finished
    b_log,     \* build_panel: the sheets read_firm_sheet was called for
    frames,    \* build_panel: frames
    m_panel,   \* main: df_bank_panel and df_oil_panel, file -> [ok, df]
    m_out,     \* the two parquet files written, file -> [ok, df]
    m_err      \* the error main ended with

normVars == <<n_in, n_out, n_again, n_pc>>
hdrVars == <<h_sheet, h_file, h_start, h_span, h_ret, h_pc>>
readVars == <<r_sheet, r_ret, r_pc>>
zVars == <<z_df, z_arg, z_cols, z_ret, z_pc>>
mainVars == <<files, m_pc, b_path, b_label, b_firms, b_i, b_log, frames, m_panel, m_out, m_err>>

vars == <<n_in, n_out, n_again, n_pc,
          h_sheet, h_file, h_start, h_span, h_ret, h_pc,
          r_sheet, r_ret, r_pc,
          z_df, z_arg, z_cols, z_ret, z_pc,
          files, m_pc, b_path, b_label, b_firms, b_i, b_log, frames, m_panel, m_out, m_err>>

-----------------------------------------------------------------------------
(* Bounds *)

MaxLen == 4            \* longest generated text given to _norm
MaxScanSheetRows == 3  \* most rows of a sheet given to find_header_row
MaxStartRow == 1       \* largest start_row given to find_header_row
MaxScanSpan == 3       \* largest max_scan_rows given to find_header_row
MaxDataRows == 2       \* most data rows of a sheet given to read_firm_sheet
MaxPanelRows == 3      \* most rows of a panel given to add_esg_zscores
MaxBookSheets == 2     \* most sheets of the bank workbook

-----------------------------------------------------------------------------
(* Values *)

None == [k |-> "none", s |-> <<>>, n |-> 0]
NaN == [k |-> "nan", s |-> <<>>, n |-> 0]
Txt(t) == [k |-> "str", s |-> t, n |-> 0]
Num(x) == [k |-> "num", s |-> <<>>, n |-> x]
Date(d) == [k |-> "date", s |-> <<>>, n |-> d]

-----------------------------------------------------------------------------
(* Characters *)

UpperChars == <<"A","B","C","D","E","F","G","H","I","J","K","L","M",
                "N","O","P","Q","R","S","T","U","V","W","X","Y","Z">>
LowerChars == <<"a","b","c","d","e","f","g","h","i","j","k","l","m",
                "n","o","p","q","r","s","t","u","v","w","x","y","z">>
DigitChars == <<"0","1","2","3","4","5","6","7","8","9">>

\* The characters str.strip() strips and the regular expression \s matches.
IsSpace(ch) == ch \in {" ", "\t", "\n", "\r", "\f"}

LowerOf == [ch \in {UpperChars[i] : i \in 1..26} |->
                LowerChars[CHOOSE i \in 1..26 : UpperChars[i] = ch]]

\* str.lower() on one character.
ToLower(ch) == IF ch \in DOMAIN LowerOf THEN LowerOf[ch] ELSE ch

Lower(t) == [i \in 1..Len(t) |-> ToLower(t[i])]

RECURSIVE LStrip(_)
LStrip(t) == IF t # <<>> /\ IsSpace(Head(t)) THEN LStrip(Tail(t)) ELSE t

RECURSIVE RStrip(_)
RStrip(t) ==
    IF t # <<>> /\ IsSpace(t[Len(t)]) THEN RStrip(SubSeq(t, 1, Len(t) - 1)) ELSE t

\* str.strip()
Strip(t) == RStrip(LStrip(t))

\* re.sub(r"\s+", " ", t): every maximal run of whitespace becomes one space.
RECURSIVE SubWs(_)
SubWs(t) ==
    IF t = <<>> THEN <<>>
    ELSE IF IsSpace(Head(t)) THEN <<" ">> \o SubWs(LStrip(t))
    ELSE <<Head(t)>> \o SubWs(Tail(t))

\* t.replace("\n", " ")
ReplaceNewline(t) == [i \in 1..Len(t) |-> IF t[i] = "\n" THEN " " ELSE t[i]]

\* The decimal digits of a natural number.
RECURSIVE Digits(_)
Digits(x) ==
    IF x < 10 THEN <<DigitChars[x + 1]>>
    ELSE Digits(x \div 10) \o <<DigitChars[(x % 10) + 1]>>

TwoDigits(x) == <<DigitChars[(x \div 10) + 1], DigitChars[(x % 10) + 1]>>

\* str(v) of a value that is neither None nor NaN.
Str(v) ==
    CASE v.k = "str" -> v.s
      [] v.k = "num" -> Digits(v.n)
      [] v.k = "date" ->
            Digits(v.n \div 10000) \o <<"-">> \o TwoDigits((v.n \div 100) % 100)
                \o <<"-">> \o TwoDigits(v.n % 100)
                \o <<" ","0","0",":","0","0",":","0","0">>
      [] OTHER -> <<>>

-----------------------------------------------------------------------------
(* _norm *)

\* A slip _norm could have: the whitespace runs are not collapsed (no re.sub).
norm_NoCollapse(v) ==
    IF v.k \in {"none", "nan"} THEN <<>>
    ELSE Strip(ReplaceNewline(Lower(Strip(Str(v)))))

norm(v) ==
    IF v.k \in {"none", "nan"} THEN <<>>
    ELSE Strip(ReplaceNewline(SubWs(Lower(Strip(Str(v))))))

-----------------------------------------------------------------------------
(* The arguments _norm is applied to *)

NormAlphabet == {"a", "A", " ", "\n"}

RECURSIVE TextsOfLen(_)
TextsOfLen(len) ==
    IF len = 0 THEN {<<>>}
    ELSE {<<c>> \o t : c \in NormAlphabet, t \in TextsOfLen(len - 1)}

Example1 == <<" ","D","a","t","e"," ","\n">>
Example2 == <<"D","A","T","E">>
Example3 == <<"d","a","t","e">>

NormInputs ==
    {None, NaN}
        \cup {Txt(t) : t \in UNION {TextsOfLen(l) : l \in 0..MaxLen}}
        \cup {Txt(Example1), Txt(Example2), Txt(Example3)}

NormInit ==
    /\ n_in \in NormInputs
    /\ n_out = <<>>
    /\ n_again = <<>>
    /\ n_pc = "init"

\* token = _norm(s)
NormCall ==
    /\ n_pc = "init"
    /\ n_out' = norm(n_in)
    /\ n_pc' = "once"
    /\ UNCHANGED <<n_in, n_again>>
    /\ UNCHANGED <<hdrVars, readVars, zVars, mainVars>>

\* _norm(token): the token is normalised once more
NormAgain ==
    /\ n_pc = "once"
    /\ n_again' = norm(Txt(n_out))
    /\ n_pc' = "twice"
    /\ UNCHANGED <<n_in, n_out>>
    /\ UNCHANGED <<hdrVars, readVars, zVars, mainVars>>

NormNext == NormCall \/ NormAgain

-----------------------------------------------------------------------------
(* config.py *)

HEADER_SCAN_START_ROW == 2000
HEADER_SCAN_MAX_ROWS == 3000

H_date == <<"d","a","t","e">>
H_rendite_1_quartal == <<"r","e","n","d","i","t","e","_","1","_","q","u","a","r","t","a","l">>
H_volatility == <<"v","o","l","a","t","i","l","i","t","y"," ","2","6","0"," ","d","a","y"," ","c","a","l","c">>
H_roe == <<"r","e","t","u","r","n"," ","o","n"," ","c","o","m","m","o","n"," ","e","q","u","i","t","y">>
H_ptb == <<"p","r","i","c","e"," ","t","o"," ","b","o","o","k"," ","r","a","t","i","o">>
H_btm == <<"b","o","o","k"," ","t","o"," ","m","a","r","k","e","t"," ","r","a","t","i","o">>
H_bloomberg_esg == <<"b","l","o","o","m","b","e","r","g","_","e","s","g">>
H_refinitiv_esg == <<"r","e","f","i","n","i","t","i","v","_","e","s","g">>
H_rendite_2_quartal == <<"r","e","n","d","i","t","e","_","2","_","q","u","a","r","t","a","l">>

EXPECTED_HEADERS ==
    <<H_date, H_rendite_1_quartal, H_volatility, H_roe, H_ptb, H_btm,
      H_bloomberg_esg, H_refinitiv_esg, H_rendite_2_quartal>>

WORKSHEET_NAME == <<"W","o","r","k","s","h","e","e","t">>
SECTOR_COL == <<"s","e","c","t","o","r">>
ENTITY_COL == <<"f","i","r","m">>
SECTOR_BANKS == <<"b","a","n","k","s">>
SECTOR_OILGAS == <<"o","i","l","_","g","a","s">>
Y_VARS == <<H_rendite_1_quartal, H_volatility, H_roe, H_ptb, H_btm, H_rendite_2_quartal>>
X_VARS == <<H_bloomberg_esg, H_refinitiv_esg>>
TIME_COL == H_date
BANK_PANEL_PARQUET == "bank_panel.parquet"
OIL_PANEL_PARQUET == "oil_panel.parquet"
DATE_FORMAT == <<"%","m","/","%","d","/","%","Y">>
BANK_FILE == "Stoxx Europe Banks_data.xlsx"
OIL_FILE == "Stoxx Europe Oil&Gas_data.xlsx"

-----------------------------------------------------------------------------
(* Sheets *)

Range(f) == {f[i] : i \in DOMAIN f}
Min(a, b) == IF a < b THEN a ELSE b
Max(a, b) == IF a > b THEN a ELSE b

\* A sheet is [name, pre, rows]: `pre` leading rows that hold no text, then
\* `rows`, each a sequence of cells.  Row r (0-based) of the sheet:
SheetLen(sheet) == sheet.pre + Len(sheet.rows)

RowAt(sheet, r) == IF r < sheet.pre THEN <<NaN, NaN>> ELSE sheet.rows[r - sheet.pre + 1]

\* A slip: nrows is not passed, the block runs to the end of the sheet.
ReadChunk_NoLimit(sheet, start_row, max_scan_rows) ==
    [i \in 1..Max(0, SheetLen(sheet) - start_row) |-> RowAt(sheet, start_row + i - 1)]

\* pd.read_excel(header=None, skiprows=start_row, nrows=max_scan_rows): the
\* rows start_row .. start_row + max_scan_rows - 1 the sheet has.
ReadChunk(sheet, start_row, max_scan_rows) ==
    [i \in 1..Max(0, Min(max_scan_rows, SheetLen(sheet) - start_row))
        |-> RowAt(sheet, start_row + i - 1)]

-----------------------------------------------------------------------------
(* find_header_row *)

MIN_HITS == 7

\* expected = set(_norm(h) for h in EXPECTED_HEADERS)
expected == {norm(Txt(h)) : h \in Range(EXPECTED_HEADERS)}

\* row_set = set(_norm(v) for v in chunk.iloc[i].tolist())
RowSet(row) == {norm(v) : v \in Range(row)}

\* hits = sum((h in row_set) for h in expected)
Hits(row_set) == Cardinality({h \in expected : h \in row_set})

\* A slip: the threshold is exclusive.
IsHeaderRow_Exclusive(row) ==
    LET row_set == RowSet(row)
    IN (H_date \in row_set) /\ (Hits(row_set) > MIN_HITS)

\* ("date" in row_set) and (hits >= 7)
IsHeaderRow(row) ==
    LET row_set == RowSet(row)
    IN (H_date \in row_set) /\ (Hits(row_set) >= MIN_HITS)

NoError == [kind |-> "none", sheet |-> <<>>, file |-> "", lo |-> 0, hi |-> 0]

\* ValueError("Header row not found in '{sheet_name}' of '{file_path}'
\*             (scanned rows {start_row}..{start_row+max_scan_rows-1}).")
HeaderNotFound(file_path, sheet_name, start_row, max_scan_rows) ==
    [kind |-> "HeaderNotFound", sheet |-> sheet_name, file |-> file_path,
     lo |-> start_row, hi |-> start_row + max_scan_rows - 1]

\* for i in range(len(chunk)): ... return start_row + i; -1 when the loop ends
RECURSIVE ScanChunk(_, _, _)
ScanChunk(chunk, i, start_row) ==
    IF i >= Len(chunk) THEN -1
    ELSE IF IsHeaderRow(chunk[i + 1]) THEN start_row + i
    ELSE ScanChunk(chunk, i + 1, start_row)

find_header_row(file_path, sheet, start_row, max_scan_rows) ==
    LET chunk == ReadChunk(sheet, start_row, max_scan_rows)
        found == ScanChunk(chunk, 0, start_row)
    IN IF found >= 0
       THEN [ok |-> TRUE, row |-> found, err |-> NoError]
       ELSE [ok |-> FALSE, row |-> -1,
             err |-> HeaderNotFound(file_path, sheet.name, start_row, max_scan_rows)]

-----------------------------------------------------------------------------
(* The sheets find_header_row is applied to *)

ToUpper(ch) ==
    IF \E i \in 1..26 : LowerChars[i] = ch
    THEN UpperChars[CHOOSE i \in 1..26 : LowerChars[i] = ch]
    ELSE ch

\* Spellings of a header an export can hold: upper case, padded with
\* whitespace, wrapped over two lines.
Upper(t) == [i \in 1..Len(t) |-> ToUpper(t[i])]
Padded(t) == <<" ">> \o t \o <<" ", "\n">>
Wrapped(t) == [i \in 1..Len(t) |-> IF t[i] = " " THEN "\n" ELSE t[i]]

Legend == <<"l","e","g","e","n","d">>

\* all nine names, as configured
RowAllNine == [i \in 1..9 |-> Txt(EXPECTED_HEADERS[i])]
\* all nine names in other spellings, after an empty cell
RowAllNineSpelled ==
    <<NaN, Txt(Padded(Upper(H_date)))>>
        \o [i \in 1..8 |-> Txt(Wrapped(Upper(EXPECTED_HEADERS[i + 1])))]
\* "date" and six more names (7 hits), one of them twice
RowSeven ==
    <<Txt(H_date), Txt(H_rendite_1_quartal), Txt(H_volatility), Txt(H_roe),
      Txt(H_ptb), Txt(H_bloomberg_esg), Txt(H_refinitiv_esg), Txt(Upper(H_roe)),
      Txt(Legend)>>
\* "date" and five more names (6 hits)
RowSixWithDate ==
    <<Txt(H_date), Txt(H_rendite_1_quartal), Txt(H_volatility), Txt(H_roe),
      Txt(H_ptb), Txt(H_bloomberg_esg), Txt(Legend), NaN, NaN>>
\* six names, no "date"
RowSixNoDate ==
    <<Txt(Legend), Txt(H_rendite_1_quartal), Txt(H_volatility), Txt(H_roe),
      Txt(H_ptb), Txt(H_bloomberg_esg), Txt(H_refinitiv_esg), NaN, NaN>>
\* eight names, no "date"
RowEightNoDate ==
    <<Num(1)>> \o [i \in 1..8 |-> Txt(EXPECTED_HEADERS[i + 1])]
RowBlank == [i \in 1..9 |-> NaN]
RowNumbers == <<Date(20200331), NaN>> \o [i \in 1..7 |-> Num(i)]

HeaderScanRows ==
    {RowAllNineSpelled, RowSeven, RowSixWithDate, RowSixNoDate, RowEightNoDate,
     RowNumbers}

RECURSIVE SeqsOfLen(_, _)
SeqsOfLen(S, len) ==
    IF len = 0 THEN {<<>>}
    ELSE {<<x>> \o t : x \in S, t \in SeqsOfLen(S, len - 1)}

SeqsUpTo(S, len) == UNION {SeqsOfLen(S, l) : l \in 0..len}

FirmA == <<"F","i","r","m","A">>
FirmB == <<"F","i","r","m","B">>
FirmC == <<"F","i","r","m","C">>

HdrInit ==
    /\ h_sheet \in {[name |-> FirmA, pre |-> 0, rows |-> rs] :
                        rs \in SeqsUpTo(HeaderScanRows, MaxScanSheetRows)}
    /\ h_file = BANK_FILE
    /\ h_start \in 0..MaxStartRow
    /\ h_span \in 0..MaxScanSpan
    /\ h_ret = [ok |-> FALSE, row |-> -1, err |-> NoError]
    /\ h_pc = "call"

HdrIdle ==
    /\ h_sheet = [name |-> <<>>, pre |-> 0, rows |-> <<>>]
    /\ h_file = ""
    /\ h_start = 0
    /\ h_span = 0
    /\ h_ret = [ok |-> FALSE, row |-> -1, err |-> NoError]
    /\ h_pc = "idle"

\* find_header_row(file_path, sheet_name, start_row, max_scan_rows) returns
FindHeaderReturn ==
    /\ h_pc = "call"
    /\ LET r == find_header_row(h_file, h_sheet, h_start, h_span)
       IN /\ r.ok
          /\ h_ret' = r
    /\ h_pc' = "returned"
    /\ UNCHANGED <<h_sheet, h_file, h_start, h_span>>
    /\ UNCHANGED <<normVars, readVars, zVars, mainVars>>

\* find_header_row raises ValueError
FindHeaderRaise ==
    /\ h_pc = "call"
    /\ LET r == find_header_row(h_file, h_sheet, h_start, h_span)
       IN /\ ~r.ok
          /\ h_ret' = r
    /\ h_pc' = "raised"
    /\ UNCHANGED <<h_sheet, h_file, h_start, h_span>>
    /\ UNCHANGED <<normVars, readVars, zVars, mainVars>>

HdrNext == FindHeaderReturn \/ FindHeaderRaise

NormIdle ==
    /\ n_in = None
    /\ n_out = <<>>
    /\ n_again = <<>>
    /\ n_pc = "idle"

-----------------------------------------------------------------------------
(* pandas: to_datetime, to_numeric, DataFrame *)

IsDigit(ch) == \E i \in 1..10 : DigitChars[i] = ch
DigitVal(ch) == (CHOOSE i \in 1..10 : DigitChars[i] = ch) - 1

IsLeap(y) == (y % 4 = 0 /\ y % 100 # 0) \/ y % 400 = 0
DaysIn(y, m) ==
    IF m = 2 THEN (IF IsLeap(y) THEN 29 ELSE 28)
    ELSE IF m \in {4, 6, 9, 11} THEN 30 ELSE 31

NoMatch == [y |-> -1, m |-> -1, d |-> -1]

\* The value of the directive %Y, %m or %d at the start of t: <<value, length>>,
\* <<-1, 0>> when its pattern does not match there.
\*   %Y  \d\d\d\d      %m  1[0-2]|0[1-9]|[1-9]      %d  3[01]|[12]\d|0[1-9]|[1-9]
Directive(t, d) ==
    LET two == IF Len(t) >= 2 /\ IsDigit(t[1]) /\ IsDigit(t[2])
               THEN DigitVal(t[1]) * 10 + DigitVal(t[2]) ELSE -1
        one == IF Len(t) >= 1 /\ IsDigit(t[1]) THEN DigitVal(t[1]) ELSE -1
        top == IF d = "m" THEN 12 ELSE 31
    IN IF d = "Y"
       THEN IF Len(t) >= 4 /\ \A i \in 1..4 : IsDigit(t[i])
            THEN <<DigitVal(t[1]) * 1000 + DigitVal(t[2]) * 100
                      + DigitVal(t[3]) * 10 + DigitVal(t[4]), 4>>
            ELSE <<-1, 0>>
       ELSE IF two >= 1 /\ two <= top THEN <<two, 2>>
       ELSE IF one >= 1 THEN <<one, 1>>
       ELSE <<-1, 0>>

\* The text t matched against the format f, the whole of it.
RECURSIVE Strptime(_, _, _)
Strptime(t, f, acc) ==
    IF f = <<>> THEN (IF t = <<>> THEN acc ELSE NoMatch)
    ELSE IF f[1] = "%"
    THEN LET v == Directive(t, f[2])
         IN IF v[1] < 0 THEN NoMatch
            ELSE Strptime(SubSeq(t, v[2] + 1, Len(t)), SubSeq(f, 3, Len(f)),
                          CASE f[2] = "Y" -> [acc EXCEPT !.y = v[1]]
                            [] f[2] = "m" -> [acc EXCEPT !.m = v[1]]
                            [] OTHER -> [acc EXCEPT !.d = v[1]])
    ELSE IF t # <<>> /\ t[1] = f[1] THEN Strptime(Tail(t), Tail(f), acc)
    ELSE NoMatch

\* pd.to_datetime(cell, format=DATE_FORMAT, errors="coerce"): a datetime is
\* kept, a text is parsed with the format, everything else and every text the
\* format does not match becomes missing (NaT).
ToDatetime(v) ==
    CASE v.k = "date" -> v
      [] v.k = "str" ->
            LET p == Strptime(v.s, DATE_FORMAT, [y |-> 1, m |-> 1, d |-> 1])
            IN IF p.y >= 1678 /\ p.y <= 2261 /\ p.d <= DaysIn(p.y, p.m)
               THEN Date(p.y * 10000 + p.m * 100 + p.d)
               ELSE NaN
      [] OTHER -> NaN

RECURSIVE DigitsVal(_)
DigitsVal(t) ==
    IF t = <<>> THEN 0
    ELSE DigitsVal(SubSeq(t, 1, Len(t) - 1)) * 10 + DigitVal(t[Len(t)])

\* pd.to_numeric(cell, errors="coerce"): a number is kept, a text of digits is
\* read as a number, everything else becomes missing.
ToNumeric(v) ==
    CASE v.k = "num" -> v
      [] v.k = "str" ->
            LET t == Strip(v.s)
            IN IF t # <<>> /\ \A i \in 1..Len(t) : IsDigit(t[i])
               THEN Num(DigitsVal(t)) ELSE NaN
      [] OTHER -> NaN

NotNa(v) == v.k \notin {"nan", "none"}

\* A DataFrame is [index, cols, rows]: the names of the index levels, the
\* names of the columns, and the rows, each a function from those names to
\* values.
NoFrame == [index |-> <<>>, cols |-> <<>>, rows |-> <<>>]

\* The code points of the characters that names are compared by.
CodeOrder ==
    <<" ", "&", ".", "/">> \o DigitChars \o <<":">> \o UpperChars \o <<"_">> \o LowerChars
Code(ch) == IF \E i \in DOMAIN CodeOrder : CodeOrder[i] = ch
            THEN CHOOSE i \in DOMAIN CodeOrder : CodeOrder[i] = ch ELSE 0

RECURSIVE TextLess(_, _)
TextLess(t, u) ==
    IF u = <<>> THEN FALSE
    ELSE IF t = <<>> THEN TRUE
    ELSE IF t[1] = u[1] THEN TextLess(Tail(t), Tail(u))
    ELSE Code(t[1]) < Code(u[1])

ValLess(v, w) == IF v.k = "str" THEN TextLess(v.s, w.s) ELSE v.n < w.n

\* Row a sorts before row b by the key columns `keys`, compared in turn.
RECURSIVE KeyLess(_, _, _)
KeyLess(a, b, keys) ==
    IF keys = <<>> THEN FALSE
    ELSE IF ValLess(a[keys[1]], b[keys[1]]) THEN TRUE
    ELSE IF ValLess(b[keys[1]], a[keys[1]]) THEN FALSE
    ELSE KeyLess(a, b, Tail(keys))

RECURSIVE InsertRow(_, _, _)
InsertRow(sorted, r, keys) ==
    IF sorted = <<>> THEN <<r>>
    ELSE IF KeyLess(r, sorted[1], keys) THEN <<r>> \o sorted
    ELSE <<sorted[1]>> \o InsertRow(Tail(sorted), r, keys)

RECURSIVE SortRows(_, _)
SortRows(rows, keys) ==
    IF rows = <<>> THEN <<>>
    ELSE InsertRow(SortRows(SubSeq(rows, 1, Len(rows) - 1), keys), rows[Len(rows)], keys)

\* df.sort_index(): the rows in ascending order of the index levels, rows
\* with equal keys in their former order.
SortIndex(df) == [df EXCEPT !.rows = SortRows(df.rows, df.index)]

RECURSIVE Without(_, _)
Without(names, drop) ==
    IF names = <<>> THEN <<>>
    ELSE IF names[1] \in drop THEN Without(Tail(names), drop)
    ELSE <<names[1]>> \o Without(Tail(names), drop)

\* df.set_index(keys)
SetIndex(df, keys) == [df EXCEPT !.index = keys, !.cols = Without(df.cols, Range(keys))]

\* df.reset_index(): the index levels become the first columns.
ResetIndex(df) == [df EXCEPT !.index = <<>>, !.cols = df.index \o df.cols]

\* df[name] = value, for a name that is no column yet
AddColumn(df, name, value) ==
    [df EXCEPT !.cols = Append(df.cols, name),
               !.rows = [i \in 1..Len(df.rows) |->
                            [c \in DOMAIN df.rows[i] \cup {name} |->
                                IF c = name THEN value ELSE df.rows[i][c]]]]

-----------------------------------------------------------------------------
(* read_firm_sheet *)

CellAt(row, j) == IF j <= Len(row) THEN row[j] ELSE NaN

UnnamedPrefix == <<"U","n","n","a","m","e","d",":"," ">>

\* pd.read_excel(header=hdr): the label of column j is the cell of the header
\* row; an empty cell is labelled "Unnamed: <j-1>"; a text that an earlier
\* column already has gets ".<count>" appended.
ColumnLabel(hrow, j) ==
    LET v == hrow[j]
        before == Cardinality({i \in 1..(j - 1) : hrow[i] = v})
    IN IF v.k \in {"nan", "none"} THEN Txt(UnnamedPrefix \o Digits(j - 1))
       ELSE IF v.k = "str" /\ before > 0 THEN Txt(v.s \o <<".">> \o Digits(before))
       ELSE v

\* df.columns = [_norm(c) for c in df.columns]
NormColumns(hrow) == [j \in 1..Len(hrow) |-> norm(ColumnLabel(hrow, j))]

\* keep = [c for c in EXPECTED_HEADERS if c in df.columns]
Keep(columns) == SelectSeq(EXPECTED_HEADERS, LAMBDA c : c \in Range(columns))

Positions(columns, c) == {j \in 1..Len(columns) : columns[j] = c}

\* df = df[df["date"].notna()]
KeepRow(row) == NotNa(row[H_date])

\* The rows of df = pd.read_excel(header=hdr)[keep] with the date column
\* parsed and the other columns coerced to numbers.
CleanRow(raw, columns, keep) ==
    [c \in Range(keep) |->
        LET cell == CellAt(raw, CHOOSE j \in Positions(columns, c) : TRUE)
        IN IF c = H_date THEN ToDatetime(cell) ELSE ToNumeric(cell)]

ReadError(kind, file_path, sheet_name) ==
    [kind |-> kind, sheet |-> sheet_name, file |-> file_path, lo |-> 0, hi |-> 0]

read_firm_sheet(file_path, sheet, start_row, max_scan_rows) ==
    LET found == find_header_row(file_path, sheet, start_row, max_scan_rows)
        hrow == RowAt(sheet, found.row)
        columns == NormColumns(hrow)
        keep == Keep(columns)
        below == [i \in 1..(SheetLen(sheet) - found.row - 1) |->
                    RowAt(sheet, found.row + i)]
        cleaned == [i \in 1..Len(below) |-> CleanRow(below[i], columns, keep)]
        df == [index |-> <<>>, cols |-> keep, rows |-> SelectSeq(cleaned, KeepRow)]
    IN IF ~found.ok THEN [ok |-> FALSE, df |-> NoFrame, err |-> found.err]
       ELSE IF H_date \notin Range(columns)
       THEN [ok |-> FALSE, df |-> NoFrame,
             err |-> ReadError("NoDateColumn", file_path, sheet.name)]
       \* df[keep] has every column of a repeated name; pd.to_datetime and
       \* pd.to_numeric raise when df[c] is a frame of several columns
       ELSE IF \E c \in Range(keep) : Cardinality(Positions(columns, c)) > 1
       THEN [ok |-> FALSE, df |-> NoFrame,
             err |-> ReadError("DuplicateColumn", file_path, sheet.name)]
       ELSE [ok |-> TRUE, df |-> SortIndex(SetIndex(df, <<H_date>>)), err |-> NoError]

-----------------------------------------------------------------------------
(* The sheets read_firm_sheet is applied to *)

Slash(m, d, y) == m \o <<"/">> \o d \o <<"/">> \o y

\* the nine names, "date" spelled twice ("date" and "DATE")
RowDateTwice ==
    <<Txt(H_date), Txt(Upper(H_date))>> \o [i \in 1..8 |-> Txt(EXPECTED_HEADERS[i + 1])]
\* "date" and six more names, both ESG scores among them
RowSevenNames ==
    <<Txt(H_date), Txt(H_rendite_1_quartal), Txt(H_volatility), Txt(H_roe),
      Txt(H_ptb), Txt(H_bloomberg_esg), Txt(H_refinitiv_esg), NaN, Txt(Legend)>>
\* every name but "bloomberg_esg"
RowNoBloomberg ==
    <<Txt(H_date), Txt(H_rendite_1_quartal), Txt(H_volatility), Txt(H_roe),
      Txt(H_ptb), Txt(H_btm), NaN, Txt(H_refinitiv_esg), Txt(H_rendite_2_quartal)>>

\* Data rows: the first cell is under "date" in the headers above.
DataRowText(date, esg) ==
    <<Txt(date), Num(11), Num(12), Num(13), Num(14), esg, Num(3), Num(16), Num(17)>>
DataRowA == DataRowText(Slash(<<"0","3">>, <<"3","1">>, <<"2","0","2","0">>), Num(1))
DataRowB ==
    <<Date(20191231), Txt(<<"x">>), Num(12), NaN, Num(14), Txt(<<"-">>), Num(5),
      Txt(<<"7">>), Num(17)>>
DataRowC == DataRowText(Slash(<<"1">>, <<"5">>, <<"2","0","2","0">>), NaN)
\* a date the format does not match (year first)
DataRowBadText ==
    DataRowText(<<"2","0","2","0","-","0","3","-","3","1">>, Num(2))
\* a day the month does not have
DataRowBadDay == DataRowText(Slash(<<"0","2">>, <<"3","0">>, <<"2","0","2","0">>), Num(2))
DataRowNoDate == <<NaN, Num(11), Num(12), Num(13), Num(14), Num(4), Num(3), Num(16), Num(17)>>

DataRows == {DataRowA, DataRowB, DataRowC, DataRowBadText, DataRowBadDay, DataRowNoDate}

ReadHeaders == {RowAllNine, RowSevenNames, RowNoBloomberg, RowDateTwice}

\* A sheet whose modelled rows start at the first scanned row: an optional
\* decoy row, the header row, the data rows.
SheetOf(name, top, hrow, data) ==
    [name |-> name, pre |-> HEADER_SCAN_START_ROW, rows |-> top \o <<hrow>> \o data]

ReadInit ==
    /\ r_sheet \in {SheetOf(FirmA, top, hrow, data) :
                        top \in {<<>>, <<RowSixNoDate>>},
                        hrow \in ReadHeaders \cup {RowSixWithDate},
                        data \in SeqsUpTo(DataRows, MaxDataRows)}
    /\ r_ret = [ok |-> FALSE, df |-> NoFrame, err |-> NoError]
    /\ r_pc = "call"

ReadIdle ==
    /\ r_sheet = [name |-> <<>>, pre |-> 0, rows |-> <<>>]
    /\ r_ret = [ok |-> FALSE, df |-> NoFrame, err |-> NoError]
    /\ r_pc = "idle"

\* read_firm_sheet(file_path, sheet_name) returns
ReadFirmSheetReturn ==
    /\ r_pc = "call"
    /\ LET r == read_firm_sheet(BANK_FILE, r_sheet, HEADER_SCAN_START_ROW,
                                HEADER_SCAN_MAX_ROWS)
       IN /\ r.ok
          /\ r_ret' = r
    /\ r_pc' = "returned"
    /\ UNCHANGED r_sheet
    /\ UNCHANGED <<normVars, hdrVars, zVars, mainVars>>

\* read_firm_sheet raises
ReadFirmSheetRaise ==
    /\ r_pc = "call"
    /\ LET r == read_firm_sheet(BANK_FILE, r_sheet, HEADER_SCAN_START_ROW,
                                HEADER_SCAN_MAX_ROWS)
       IN /\ ~r.ok
          /\ r_ret' = r
    /\ r_pc' = "raised"
    /\ UNCHANGED r_sheet
    /\ UNCHANGED <<normVars, hdrVars, zVars, mainVars>>

ReadNext == ReadFirmSheetReturn \/ ReadFirmSheetRaise

-----------------------------------------------------------------------------
(* add_esg_zscores *)

\* z_col = f"{col}_z"
ZName(col) == col \o <<"_", "z">>

\* The rows x.mean() and x.std() are computed over: the rows of the group
\* whose value is not missing.
GroupMembers(rows, col, group_col, g) ==
    {j \in 1..Len(rows) : rows[j][group_col] = g /\ rows[j][col].k = "num"}

RECURSIVE SumOf(_, _)
SumOf(f, S) ==
    IF S = {} THEN 0
    ELSE LET j == CHOOSE j \in S : TRUE IN f[j] + SumOf(f, S \ {j})

\* (x - x.mean()) / x.std() for row i, exactly: with n values of sum s in the
\* group, x - mean = dev / n for dev = n*x - s, and std^2 = q / (n^2 (n-1))
\* for q the sum of the squares of dev over the group, so the z-score is
\* dev * sqrt((n-1) / q), kept as [k |-> "z", num |-> dev, n1 |-> n-1, q |-> q].
\* It is missing when x is, when x.std() is (n < 2), and when 0 is divided
\* by a zero x.std().
ZScore(rows, col, group_col, i) ==
    LET g == rows[i][group_col]
        members == GroupMembers(rows, col, group_col, g)
        n == Cardinality(members)
        s == SumOf([j \in members |-> rows[j][col].n], members)
        dev == [j \in members |-> n * rows[j][col].n - s]
        q == SumOf([j \in members |-> dev[j] * dev[j]], members)
    IN IF ~NotNa(g) \/ rows[i][col].k # "num" \/ n < 2 THEN NaN
       ELSE IF q = 0 THEN (IF dev[i] = 0 THEN NaN
                           ELSE [k |-> "inf", s |-> <<>>, n |-> dev[i]])
       ELSE [k |-> "z", num |-> dev[i], n1 |-> n - 1, q |-> q]

\* df[z_col] = values: a new last column, or new values of the column z_col
SetColumn(df, name, values) ==
    [df EXCEPT !.cols = IF name \in Range(df.cols) THEN df.cols ELSE Append(df.cols, name),
               !.rows = [i \in 1..Len(df.rows) |->
                            [c \in DOMAIN df.rows[i] \cup {name} |->
                                IF c = name THEN values[i] ELSE df.rows[i][c]]]]

KeyError(name) == [kind |-> "KeyError", sheet |-> name, file |-> "", lo |-> 0, hi |-> 0]
TypeError(name) == [kind |-> "TypeError", sheet |-> name, file |-> "", lo |-> 0, hi |-> 0]

\* for col in esg_cols: df[f"{col}_z"] = df.groupby(group_col)[col].transform(...)
RECURSIVE ZLoop(_, _, _)
ZLoop(df, cols, group_col) ==
    IF cols = <<>> THEN [ok |-> TRUE, df |-> df, err |-> NoError]
    ELSE LET col == cols[1] IN
         IF group_col \notin Range(df.cols) \cup Range(df.index)
         THEN [ok |-> FALSE, df |-> NoFrame, err |-> KeyError(group_col)]
         ELSE IF col \notin Range(df.cols)
         THEN [ok |-> FALSE, df |-> NoFrame, err |-> KeyError(col)]
         ELSE IF \E i \in 1..Len(df.rows) : df.rows[i][col].k \notin {"num", "nan"}
         THEN [ok |-> FALSE, df |-> NoFrame, err |-> TypeError(col)]
         ELSE ZLoop(SetColumn(df, ZName(col),
                              [i \in 1..Len(df.rows) |-> ZScore(df.rows, col, group_col, i)]),
                    Tail(cols), group_col)

\* df = df.copy(): the frame the caller passed, after the call
ArgAfter(df, result) == df

add_esg_zscores(df, esg_cols, group_col) ==
    LET result == ZLoop(df, esg_cols, group_col)
    IN [ok |-> result.ok, df |-> result.df, arg |-> ArgAfter(df, result), err |-> result.err]

-----------------------------------------------------------------------------
(* The panels add_esg_zscores is applied to *)

DateOfRow(i) == Date(20200100 + i)

PanelRow(i, v) ==
    [c \in {ENTITY_COL, TIME_COL, SECTOR_COL, H_bloomberg_esg, H_refinitiv_esg,
            ZName(H_bloomberg_esg)} |->
        CASE c = ENTITY_COL -> Txt(FirmA)
          [] c = TIME_COL -> DateOfRow(i)
          [] c = SECTOR_COL -> Txt(v[1])
          [] c = H_bloomberg_esg -> v[2]
          [] c = H_refinitiv_esg -> Num(5)
          [] OTHER -> Num(9)]

Restrict(row, names) == [c \in names |-> row[c]]

ZColumnLists ==
    {<<H_bloomberg_esg, SECTOR_COL>>,
     <<H_bloomberg_esg, H_refinitiv_esg, SECTOR_COL>>,
     <<H_bloomberg_esg, SECTOR_COL, ZName(H_bloomberg_esg)>>}

ZPanels ==
    {[index |-> <<ENTITY_COL, TIME_COL>>,
      cols |-> cols,
      rows |-> [i \in 1..Len(vs) |->
                  Restrict(PanelRow(i, vs[i]), Range(cols) \cup {ENTITY_COL, TIME_COL})]] :
        cols \in ZColumnLists,
        vs \in SeqsUpTo({SECTOR_BANKS, SECTOR_OILGAS} \X {NaN, Num(1), Num(2)}, MaxPanelRows)}

ZInit ==
    /\ z_df \in ZPanels
    /\ z_arg = z_df
    /\ z_cols \in {<<>>, <<H_bloomberg_esg>>, <<H_bloomberg_esg, H_refinitiv_esg>>}
    /\ z_ret = [ok |-> FALSE, df |-> NoFrame, arg |-> NoFrame, err |-> NoError]
    /\ z_pc = "call"

ZIdle ==
    /\ z_df = NoFrame
    /\ z_arg = NoFrame
    /\ z_cols = <<>>
    /\ z_ret = [ok |-> FALSE, df |-> NoFrame, arg |-> NoFrame, err |-> NoError]
    /\ z_pc = "idle"

\* add_esg_zscores(df, esg_cols) returns
ZscoresReturn ==
    /\ z_pc = "call"
    /\ LET r == add_esg_zscores(z_df, z_cols, SECTOR_COL)
       IN /\ r.ok
          /\ z_ret' = r
          /\ z_df' = r.arg
    /\ z_pc' = "returned"
    /\ UNCHANGED <<z_arg, z_cols>>
    /\ UNCHANGED <<normVars, hdrVars, readVars, mainVars>>

\* add_esg_zscores raises
ZscoresRaise ==
    /\ z_pc = "call"
    /\ LET r == add_esg_zscores(z_df, z_cols, SECTOR_COL)
       IN /\ ~r.ok
          /\ z_ret' = r
          /\ z_df' = r.arg
    /\ z_pc' = "raised"
    /\ UNCHANGED <<z_arg, z_cols>>
    /\ UNCHANGED <<normVars, hdrVars, readVars, mainVars>>

ZNext == ZscoresReturn \/ ZscoresRaise

-----------------------------------------------------------------------------
(* list_firm_sheets, build_panel, main *)

Files == {BANK_FILE, OIL_FILE}

\* [s for s in xls.sheet_names if s != WORKSHEET_NAME]
list_firm_sheets(workbook) ==
    LET names == [i \in 1..Len(workbook) |-> workbook[i].name]
    IN SelectSeq(names, LAMBDA n : n # WORKSHEET_NAME)

SheetNamed(workbook, name) ==
    workbook[CHOOSE i \in 1..Len(workbook) : workbook[i].name = name]

\* df_firm["firm"] = firm; df_firm["sector"] = sector_label;
\* df_firm.reset_index()
TagFrame(df_firm, firm, sector_label) ==
    ResetIndex(AddColumn(AddColumn(df_firm, ENTITY_COL, Txt(firm)),
                         SECTOR_COL, Txt(sector_label)))

RECURSIVE UnionCols(_, _)
UnionCols(fs, acc) ==
    IF fs = <<>> THEN acc
    ELSE UnionCols(Tail(fs), acc \o Without(fs[1].cols, Range(acc)))

RECURSIVE StackRows(_, _)
StackRows(fs, cols) ==
    IF fs = <<>> THEN <<>>
    ELSE [i \in 1..Len(fs[1].rows) |->
            [c \in Range(cols) |->
                IF c \in DOMAIN fs[1].rows[i] THEN fs[1].rows[i][c] ELSE NaN]]
         \o StackRows(Tail(fs), cols)

\* A slip: join="inner", only the columns every frame has are kept.
Concat_Inner(fs) ==
    LET cols == SelectSeq(UnionCols(fs, <<>>),
                          LAMBDA c : \A i \in 1..Len(fs) : c \in Range(fs[i].cols))
    IN [index |-> <<>>, cols |-> cols, rows |-> StackRows(fs, cols)]

\* pd.concat(frames, ignore_index=True): the rows of the frames one after the
\* other, under the columns of all of them, missing where a frame has none.
Concat(fs) ==
    LET cols == UnionCols(fs, <<>>)
    IN [index |-> <<>>, cols |-> cols, rows |-> StackRows(fs, cols)]

NoPanel == [ok |-> FALSE, df |-> NoFrame]

MainIdle ==
    /\ files = [f \in Files |-> <<>>]
    /\ m_pc = "idle"
    /\ b_path = ""
    /\ b_label = <<>>
    /\ b_firms = <<>>
    /\ b_i = 0
    /\ b_log = <<>>
    /\ frames = <<>>
    /\ m_panel = [f \in Files |-> NoPanel]
    /\ m_out = [f \in {BANK_PANEL_PARQUET, OIL_PANEL_PARQUET} |-> NoPanel]
    /\ m_err = NoError

\* build_panel(xlsx_path, sector_label) is entered: frames = [], the loop
\* is over list_firm_sheets(xlsx_path)
EnterBuildPanel(xlsx_path, sector_label) ==
    /\ b_path' = xlsx_path
    /\ b_label' = sector_label
    /\ b_firms' = list_firm_sheets(files[xlsx_path])
    /\ b_i' = 0
    /\ b_log' = <<>>
    /\ frames' = <<>>
    /\ m_pc' = "reading"

\* main: df_bank_panel = build_panel(BANK_FILE, SECTOR_BANKS) is called
MainBuildBank ==
    /\ m_pc = "start"
    /\ EnterBuildPanel(BANK_FILE, SECTOR_BANKS)
    /\ UNCHANGED <<files, m_panel, m_out, m_err>>
    /\ UNCHANGED <<normVars, hdrVars, readVars, zVars>>

\* main: df_oil_panel = build_panel(OIL_FILE, SECTOR_OILGAS) is called
MainBuildOil ==
    /\ m_pc = "bank_built"
    /\ EnterBuildPanel(OIL_FILE, SECTOR_OILGAS)
    /\ UNCHANGED <<files, m_panel, m_out, m_err>>
    /\ UNCHANGED <<normVars, hdrVars, readVars, zVars>>

ReadNextFirm ==
    read_firm_sheet(b_path, SheetNamed(files[b_path], b_firms[b_i + 1]),
                    HEADER_SCAN_START_ROW, HEADER_SCAN_MAX_ROWS)

\* A slip: a sheet that cannot be read is skipped and the loop goes on.
ReadSheetRaise_Skip ==
    /\ m_pc = "reading"
    /\ b_i < Len(b_firms)
    /\ LET r == ReadNextFirm
       IN /\ ~r.ok
          /\ m_err' = r.err
    /\ b_log' = Append(b_log, b_firms[b_i + 1])
    /\ b_i' = b_i + 1
    /\ UNCHANGED <<files, m_pc, b_path, b_label, b_firms, frames, m_panel, m_out>>
    /\ UNCHANGED <<normVars, hdrVars, readVars, zVars>>

\* build_panel, one turn of the loop: the sheet is read, tagged and appended
ReadSheet ==
    /\ m_pc = "reading"
    /\ b_i < Len(b_firms)
    /\ LET r == ReadNextFirm
       IN /\ r.ok
          /\ frames' = Append(frames, TagFrame(r.df, b_firms[b_i + 1], b_label))
    /\ b_log' = Append(b_log, b_firms[b_i + 1])
    /\ b_i' = b_i + 1
    /\ UNCHANGED <<files, m_pc, b_path, b_label, b_firms, m_panel, m_out, m_err>>
    /\ UNCHANGED <<normVars, hdrVars, readVars, zVars>>

\* build_panel, one turn of the loop: read_firm_sheet raises, and the error
\* leaves build_panel and main
ReadSheetRaise ==
    /\ m_pc = "reading"
    /\ b_i < Len(b_firms)
    /\ LET r == ReadNextFirm
       IN /\ ~r.ok
          /\ m_err' = r.err
    /\ b_log' = Append(b_log, b_firms[b_i + 1])
    /\ m_pc' = "raised"
    /\ UNCHANGED <<files, b_path, b_label, b_firms, b_i, frames, m_panel, m_out>>
    /\ UNCHANGED <<normVars, hdrVars, readVars, zVars>>

\* build_panel after the loop: concat, set_index, sort_index, return
ConcatPanel ==
    /\ m_pc = "reading"
    /\ b_i = Len(b_firms)
    /\ frames # <<>>
    /\ m_panel' = [m_panel EXCEPT ![b_path] =
                      [ok |-> TRUE,
                       df |-> SortIndex(SetIndex(Concat(frames), <<ENTITY_COL, TIME_COL>>))]]
    /\ m_pc' = IF b_path = BANK_FILE THEN "bank_built" ELSE "oil_built"
    /\ UNCHANGED <<files, b_path, b_label, b_firms, b_i, b_log, frames, m_out, m_err>>
    /\ UNCHANGED <<normVars, hdrVars, readVars, zVars>>

\* build_panel after the loop, no firm sheet: pd.concat([]) raises ValueError
ConcatRaise ==
    /\ m_pc = "reading"
    /\ b_i = Len(b_firms)
    /\ frames = <<>>
    /\ m_err' = [kind |-> "NoObjectsToConcatenate", sheet |-> <<>>, file |-> b_path,
                 lo |-> 0, hi |-> 0]
    /\ m_pc' = "raised"
    /\ UNCHANGED <<files, b_path, b_label, b_firms, b_i, b_log, frames, m_panel, m_out>>
    /\ UNCHANGED <<normVars, hdrVars, readVars, zVars>>

\* A slip: only the first score is standardised.
MainEsgCols_One == <<H_bloomberg_esg>>

\* esg_cols=["bloomberg_esg", "refinitiv_esg"]
MainEsgCols == <<H_bloomberg_esg, H_refinitiv_esg>>

\* main: df_x_panel = add_esg_zscores(df_x_panel, esg_cols=[...])
MainZscores(file, from, to) ==
    /\ m_pc = from
    /\ LET r == add_esg_zscores(m_panel[file].df, MainEsgCols, SECTOR_COL)
       IN IF r.ok
          THEN /\ m_panel' = [m_panel EXCEPT ![file] = [ok |-> TRUE, df |-> r.df]]
               /\ m_pc' = to
               /\ UNCHANGED m_err
          ELSE /\ m_err' = r.err
               /\ m_pc' = "raised"
               /\ UNCHANGED m_panel
    /\ UNCHANGED <<files, b_path, b_label, b_firms, b_i, b_log, frames, m_out>>
    /\ UNCHANGED <<normVars, hdrVars, readVars, zVars>>

MainZscoresBank == MainZscores(BANK_FILE, "oil_built", "bank_z")

MainZscoresOil == MainZscores(OIL_FILE, "bank_z", "oil_z")

\* main: df_x_panel.reset_index().to_parquet(X_PANEL_PARQUET, index=False),
\* for both panels; return
MainSave ==
    /\ m_pc = "oil_z"
    /\ m_out' = [f \in {BANK_PANEL_PARQUET, OIL_PANEL_PARQUET} |->
                    [ok |-> TRUE,
                     df |-> ResetIndex(m_panel[IF f = BANK_PANEL_PARQUET
                                               THEN BANK_FILE ELSE OIL_FILE].df)]]
    /\ m_pc' = "done"
    /\ UNCHANGED <<files, b_path, b_label, b_firms, b_i, b_log, frames, m_panel, m_err>>
    /\ UNCHANGED <<normVars, hdrVars, readVars, zVars>>

MainNext ==
    \/ MainBuildBank
    \/ MainBuildOil
    \/ ReadSheet
    \/ ReadSheetRaise
    \/ ConcatPanel
    \/ ConcatRaise
    \/ MainZscoresBank
    \/ MainZscoresOil
    \/ MainSave

-----------------------------------------------------------------------------
(* The workbooks main is run on *)

\* a sheet without a header row
SheetNoHeader(name) == SheetOf(name, <<>>, RowSixWithDate, <<DataRowA>>)

FirmSheets(name) ==
    {SheetOf(name, <<>>, RowAllNine, <<DataRowA, DataRowB>>),
     SheetOf(name, <<RowSixNoDate>>, RowSevenNames, <<DataRowC, DataRowBadDay>>),
     SheetOf(name, <<>>, RowNoBloomberg, <<DataRowA>>),
     SheetNoHeader(name)}

WorksheetSheet ==
    [name |-> WORKSHEET_NAME, pre |-> 0, rows |-> <<<<Txt(Legend), NaN>>>>]

DistinctNames(workbook) ==
    \A i, j \in 1..Len(workbook) : workbook[i].name = workbook[j].name => i = j

BankBooks ==
    {wb \in SeqsUpTo(FirmSheets(FirmA) \cup FirmSheets(FirmB) \cup {WorksheetSheet},
                     MaxBookSheets) : DistinctNames(wb)}

OilBooks ==
    {<<SheetOf(FirmA, <<>>, RowAllNine, <<DataRowA, DataRowB>>)>>,
     <<SheetOf(FirmB, <<>>, RowNoBloomberg, <<DataRowA>>), WorksheetSheet,
       SheetOf(FirmA, <<RowSixNoDate>>, RowSevenNames, <<DataRowC, DataRowBadDay>>)>>,
     <<SheetOf(FirmA, <<>>, RowNoBloomberg, <<DataRowA>>)>>,
     <<SheetOf(FirmC, <<>>, RowAllNine, <<DataRowB>>), SheetNoHeader(FirmA),
       SheetOf(FirmB, <<>>, RowAllNine, <<DataRowA>>)>>}

MainInit ==
    /\ files \in {[f \in Files |-> IF f = BANK_FILE THEN bank ELSE oil] :
                    bank \in BankBooks, oil \in OilBooks}
    /\ m_pc = "start"
    /\ b_path = ""
    /\ b_label = <<>>
    /\ b_firms = <<>>
    /\ b_i = 0
    /\ b_log = <<>>
    /\ frames = <<>>
    /\ m_panel = [f \in Files |-> NoPanel]
    /\ m_out = [f \in {BANK_PANEL_PARQUET, OIL_PANEL_PARQUET} |-> NoPanel]
    /\ m_err = NoError

-----------------------------------------------------------------------------
(* C1, C2 *)

\* The normalised cell tokens of a row hold "date" and at least 7 distinct
\* names of the expected schema.
Qualifies(row) ==
    LET tokens == {norm(c) : c \in Range(row)}
    IN /\ H_date \in tokens
       /\ Cardinality(Range(EXPECTED_HEADERS) \cap tokens) >= 7

\* The offsets of the scan window that are rows of the sheet.
WindowOffsets == {i \in 0..(h_span - 1) : h_start + i < SheetLen(h_sheet)}

QualifyingOffsets == {i \in WindowOffsets : Qualifies(RowAt(h_sheet, h_start + i))}

\* C1: when a row of the window qualifies, find_header_row returns
\* start_row + i for the smallest offset i of a qualifying row.
C1_EarliestQualifyingRow ==
    (h_pc \in {"returned", "raised"} /\ QualifyingOffsets # {}) =>
        /\ h_pc = "returned"
        /\ h_ret.ok
        /\ \E i \in QualifyingOffsets :
            /\ h_ret.row = h_start + i
            /\ \A j \in QualifyingOffsets : i <= j

\* The header is found below a decoy row with six names and no "date", and
\* another qualifying row follows it.
C1_Witness ==
    /\ h_pc = "returned"
    /\ h_start = 0
    /\ h_ret.row = 1
    /\ RowAt(h_sheet, 0) = RowSixNoDate
    /\ Cardinality(QualifyingOffsets) >= 2

\* C2: find_header_row raises header-not-found, and returns no row, exactly
\* when no row of the window qualifies; the error names the sheet, the file
\* and the rows start_row .. start_row + max_scan_rows - 1.
C2_NotFoundIffNoneQualifies ==
    h_pc \in {"returned", "raised"} =>
        /\ (h_pc = "raised") <=> (QualifyingOffsets = {})
        /\ h_pc = "raised" =>
            /\ ~h_ret.ok
            /\ h_ret.row = -1
            /\ h_ret.err.kind = "HeaderNotFound"
            /\ h_ret.err.sheet = h_sheet.name
            /\ h_ret.err.file = h_file
            /\ h_ret.err.lo = h_start
            /\ h_ret.err.hi = h_start + h_span - 1
        /\ h_pc = "returned" => h_ret.err = NoError

\* The call raises although a row outside the window qualifies.
C2_Witness ==
    /\ h_pc = "raised"
    /\ h_span > 0
    /\ \E r \in 0..(SheetLen(h_sheet) - 1) :
        /\ Qualifies(RowAt(h_sheet, r))
        /\ (r < h_start \/ r > h_start + h_span - 1)

-----------------------------------------------------------------------------
(* C4 *)

DefaultWindow(sheet) ==
    HEADER_SCAN_START_ROW ..
        Min(HEADER_SCAN_START_ROW + HEADER_SCAN_MAX_ROWS - 1, SheetLen(sheet) - 1)

\* The header of the sheet is located: a row of the default window qualifies.
HeaderLocated(sheet) == \E r \in DefaultWindow(sheet) : Qualifies(RowAt(sheet, r))

LocatedRow(sheet) ==
    CHOOSE r \in DefaultWindow(sheet) :
        /\ Qualifies(RowAt(sheet, r))
        /\ \A q \in DefaultWindow(sheet) : Qualifies(RowAt(sheet, q)) => r <= q

\* The cell of a data row under the header cell that normalises to `name`.
CellUnder(row, hrow, name) == CellAt(row, CHOOSE j \in 1..Len(hrow) : norm(hrow[j]) = name)

\* The date cell of the row parses with the fixed date format.
DateParses(row, hrow) == ToDatetime(CellUnder(row, hrow, H_date)).k = "date"

\* What a data row has to look like in the Firm Table: its date parsed, every
\* other cell of an expected column as a number, or missing when it is none.
TableRow(row, hrow) ==
    [c \in {h \in Range(EXPECTED_HEADERS) : \E j \in 1..Len(hrow) : norm(hrow[j]) = h} |->
        LET cell == CellUnder(row, hrow, c)
        IN IF c = H_date THEN ToDatetime(cell)
           ELSE IF ToNumeric(cell).k = "num" THEN ToNumeric(cell) ELSE NaN]

Count(seq, x) == Cardinality({i \in 1..Len(seq) : seq[i] = x})

\* The table holds exactly the rows below the header whose date parses.
ExactlyTheDatedRows(sheet, df) ==
    LET h == LocatedRow(sheet)
        hrow == RowAt(sheet, h)
        below == [i \in 1..(SheetLen(sheet) - h - 1) |-> RowAt(sheet, h + i)]
        dated == {i \in 1..Len(below) : DateParses(below[i], hrow)}
    IN /\ Len(df.rows) = Cardinality(dated)
       /\ \A i \in dated :
            Count(df.rows, TableRow(below[i], hrow))
                = Cardinality({k \in dated : TableRow(below[k], hrow) = TableRow(below[i], hrow)})

\* C4 as stated: for every sheet whose header is located, read_firm_sheet
\* returns a Firm Table whose rows are exactly the data rows below the header
\* whose date cell parses, non-date cells that do not parse becoming missing.
C4_AsStated ==
    (r_pc \in {"returned", "raised"} /\ HeaderLocated(r_sheet)) =>
        /\ r_pc = "returned"
        /\ ExactlyTheDatedRows(r_sheet, r_ret.df)

-----------------------------------------------------------------------------
(* C10 *)

\* The words of a text: its maximal runs of non-whitespace characters.
RECURSIVE Words(_, _)
Words(t, cur) ==
    IF t = <<>> THEN (IF cur = <<>> THEN <<>> ELSE <<cur>>)
    ELSE IF IsSpace(Head(t))
         THEN (IF cur = <<>> THEN <<>> ELSE <<cur>>) \o Words(Tail(t), <<>>)
         ELSE Words(Tail(t), Append(cur, Head(t)))

\* Two texts differ only in letter case, in surrounding whitespace and in the
\* kind and amount of internal whitespace: the same words up to case.
SameUpToCaseAndSpace(t, u) ==
    LET wt == Words(t, <<>>)
        wu == Words(u, <<>>)
    IN /\ Len(wt) = Len(wu)
       /\ \A i \in 1..Len(wt) : Lower(wt[i]) = Lower(wu[i])

\* C10: _norm is idempotent, maps None and NaN to the empty token, maps texts
\* that differ only in case and whitespace to the same token, and maps
\* " Date \n", "DATE" and "date" to "date".
C10_NormIdempotentInsensitive ==
    /\ n_pc = "twice" => n_again = n_out
    /\ n_pc # "init" =>
        /\ n_in.k \in {"none", "nan"} => n_out = <<>>
        /\ n_in.k = "str" =>
            \A v \in NormInputs :
                (v.k = "str" /\ SameUpToCaseAndSpace(n_in.s, v.s)) => norm(v) = n_out
        /\ n_in \in {Txt(Example1), Txt(Example2), Txt(Example3)} => n_out = Example3

\* A text with a run of different whitespace characters inside and around it,
\* normalised twice.
C10_Witness ==
    /\ n_pc = "twice"
    /\ n_in = Txt(<<"A", " ", "\n">>)
    /\ n_out = <<"a">>

-----------------------------------------------------------------------------
(* C3, C5, C9: build_panel and main *)

ReadErrors == {"HeaderNotFound", "NoDateColumn", "DuplicateColumn"}

\* The Firm Table of the sheet called `firm` in the workbook at `path`.
FirmTable(path, firm) ==
    read_firm_sheet(path, SheetNamed(files[path], firm),
                    HEADER_SCAN_START_ROW, HEADER_SCAN_MAX_ROWS)

\* C3: build_panel is fail-fast.  When the read of a firm sheet fails, the
\* error leaves build_panel at that sheet: the sheets read are the sheets of
\* the enumeration up to and including the failing one, which is the first
\* that cannot be read, no later sheet is read, no panel is returned for the
\* workbook and nothing is written; and a panel is returned only when every
\* firm sheet of the workbook could be read.
C3_FailFast ==
    /\ m_err.kind \in ReadErrors =>
          /\ m_pc = "raised"
          /\ b_i < Len(b_firms)
          /\ b_log = SubSeq(b_firms, 1, b_i + 1)
          /\ Len(frames) = b_i
          /\ \A k \in 1..b_i : FirmTable(b_path, b_firms[k]).ok
          /\ ~FirmTable(b_path, b_firms[b_i + 1]).ok
          /\ ~m_panel[b_path].ok
          /\ \A f \in DOMAIN m_out : ~m_out[f].ok
    /\ \A path \in Files :
          m_panel[path].ok =>
              \A k \in 1..Len(list_firm_sheets(files[path])) :
                  FirmTable(path, list_firm_sheets(files[path])[k]).ok

\* A sheet without a header between a sheet already read, whose rows are in
\* frames, and a sheet that is never read.
C3_Witness ==
    /\ m_pc = "raised"
    /\ m_err.kind = "HeaderNotFound"
    /\ Len(frames) = 1
    /\ frames[1].rows # <<>>
    /\ b_i + 1 < Len(b_firms)
    /\ ~m_panel[b_path].ok

\* The panel row p is the row t of a Firm Table, tagged with firm and sector.
IsRowOf(p, t, firm, label) ==
    /\ \A c \in DOMAIN t : c \in DOMAIN p /\ p[c] = t[c]
    /\ ENTITY_COL \in DOMAIN p /\ p[ENTITY_COL] = Txt(firm)
    /\ SECTOR_COL \in DOMAIN p /\ p[SECTOR_COL] = Txt(label)
    /\ \A c \in DOMAIN p \ (DOMAIN t \cup {ENTITY_COL, SECTOR_COL}) : p[c] = NaN

SumLen(path, firms) ==
    SumOf([k \in 1..Len(firms) |-> Len(FirmTable(path, firms[k]).df.rows)], 1..Len(firms))

\* C5: whenever build_panel returns, the panel is in ascending order of
\* (firm, date), it has as many rows as the Firm Tables of the workbook's
\* firm sheets together, and every row of every Firm Table is in it as many
\* times as in the table, under the name of its sheet.
C5_PanelIsStackedAndSorted ==
    m_pc \in {"bank_built", "oil_built"} =>
        LET panel == m_panel[b_path].df
            firms == list_firm_sheets(files[b_path])
        IN /\ m_panel[b_path].ok
           /\ panel.index = <<ENTITY_COL, TIME_COL>>
           /\ \A i, j \in 1..Len(panel.rows) :
                 i < j =>
                    \/ TextLess(panel.rows[i][ENTITY_COL].s, panel.rows[j][ENTITY_COL].s)
                    \/ /\ panel.rows[i][ENTITY_COL] = panel.rows[j][ENTITY_COL]
                       /\ panel.rows[i][TIME_COL].n <= panel.rows[j][TIME_COL].n
           /\ Len(panel.rows) = SumLen(b_path, firms)
           /\ \A k \in 1..Len(firms) :
                 LET table == FirmTable(b_path, firms[k]).df.rows
                 IN \A t \in Range(table) :
                       Cardinality({i \in 1..Len(panel.rows) :
                                       IsRowOf(panel.rows[i], t, firms[k], b_label)})
                           = Count(table, t)
           /\ \A i \in 1..Len(panel.rows) :
                 \E k \in 1..Len(firms) : panel.rows[i][ENTITY_COL] = Txt(firms[k])

\* Two sheets with different columns, enumerated out of name order, each
\* with rows.
C5_Witness ==
    /\ m_pc = "bank_built"
    /\ Len(b_firms) = 2
    /\ TextLess(b_firms[2], b_firms[1])
    /\ frames[1].cols # frames[2].cols
    /\ Len(frames[1].rows) = 2
    /\ Len(frames[2].rows) >= 1

\* The variables of the expected schema that head a column of some firm
\* sheet of the workbook.
VariablesPresent(path) ==
    UNION {Range(EXPECTED_HEADERS) \cap RowSet(RowAt(s, LocatedRow(s))) :
              s \in {SheetNamed(files[path], n) : n \in Range(list_firm_sheets(files[path]))}}
        \ {H_date}

OutputOf(f) == m_out[f].df

WorkbookOf(f) == IF f = BANK_PANEL_PARQUET THEN BANK_FILE ELSE OIL_FILE

\* C9 as stated: each output table has exactly 11 columns, firm, date, the
\* six outcome variables, the two raw scores and the two z-score columns.
C9_AsStated ==
    m_pc = "done" =>
        \A f \in DOMAIN m_out :
            /\ Len(OutputOf(f).cols) = 11
            /\ Range(OutputOf(f).cols) =
                   {ENTITY_COL, TIME_COL} \cup Range(Y_VARS) \cup Range(X_VARS)
                       \cup {ZName(x) : x \in Range(X_VARS)}

\* C9: each output table has firm and date as its first columns and, after
\* them, the variables of the expected schema that some firm sheet of the
\* workbook has (the two raw scores always among them), the sector column and
\* the two z-score columns, each once: 13 columns when all eight variables
\* are present, never fewer than 11.
C9_OutputColumns ==
    m_pc = "done" =>
        \A f \in DOMAIN m_out :
            LET cols == OutputOf(f).cols
                present == VariablesPresent(WorkbookOf(f))
            IN /\ m_out[f].ok
               /\ Len(cols) >= 2
               /\ cols[1] = ENTITY_COL
               /\ cols[2] = TIME_COL
               /\ Range(cols) = {ENTITY_COL, TIME_COL, SECTOR_COL} \cup present
                                    \cup {ZName(x) : x \in Range(X_VARS)}
               /\ Range(X_VARS) \subseteq present
               /\ Len(cols) = Cardinality(present) + 5
               /\ Len(cols) \in 11..13
               /\ (present = Range(Y_VARS) \cup Range(X_VARS)) => Len(cols) = 13
               /\ \A i \in 1..Len(OutputOf(f).rows) :
                     DOMAIN OutputOf(f).rows[i] = Range(cols)

\* Both tables written, one with all eight variables and one without two of
\* the outcome variables.
C9_Witness ==
    /\ m_pc = "done"
    /\ Len(OutputOf(OIL_PANEL_PARQUET).cols) = 13
    /\ Len(OutputOf(BANK_PANEL_PARQUET).cols) = 11
    /\ OutputOf(BANK_PANEL_PARQUET).rows # <<>>

-----------------------------------------------------------------------------
(* C6, C8: add_esg_zscores *)

\* The values of column col over the rows of group g that are not missing.
GroupValues(rows, col, g) ==
    {j \in 1..Len(rows) : rows[j][SECTOR_COL] = g /\ NotNa(rows[j][col])}

\* The standard deviation of the group is undefined (fewer than 2 values) or
\* zero (all values equal).
NoSpread(rows, col, g) ==
    \/ Cardinality(GroupValues(rows, col, g)) < 2
    \/ \A j, k \in GroupValues(rows, col, g) : rows[j][col] = rows[k][col]

\* C6 as stated: add_esg_zscores raises no error for any panel and any list
\* of target columns; a row whose target value is missing gets a missing
\* z-score, and so does every row of a group whose standard deviation is
\* zero or undefined.
C6_AsStated ==
    z_pc # "call" =>
        /\ z_pc = "returned"
        /\ \A k \in 1..Len(z_cols) :
              \A i \in 1..Len(z_arg.rows) :
                 (\/ ~NotNa(z_arg.rows[i][z_cols[k]])
                  \/ NoSpread(z_arg.rows, z_cols[k], z_arg.rows[i][SECTOR_COL]))
                     => z_ret.df.rows[i][ZName(z_cols[k])] = NaN

\* C8 as stated: every column of the input panel is in the result with its
\* values unchanged, also when the panel already has a column named like a
\* derived column; the rows and the index are unchanged and the panel passed
\* in is not modified.
C8_AsStated ==
    z_pc = "returned" =>
        /\ z_df = z_arg
        /\ z_ret.df.index = z_arg.index
        /\ Len(z_ret.df.rows) = Len(z_arg.rows)
        /\ \A c \in Range(z_arg.index) \cup Range(z_arg.cols) :
              /\ c \in Range(z_ret.df.index) \cup Range(z_ret.df.cols)
              /\ \A i \in 1..Len(z_arg.rows) : z_ret.df.rows[i][c] = z_arg.rows[i][c]

-----------------------------------------------------------------------------
(* Specifications *)

InitNorm == NormInit /\ HdrIdle /\ ReadIdle /\ ZIdle /\ MainIdle
InitHeader == HdrInit /\ NormIdle /\ ReadIdle /\ ZIdle /\ MainIdle
InitRead == ReadInit /\ NormIdle /\ HdrIdle /\ ZIdle /\ MainIdle
InitMain == MainInit /\ NormIdle /\ HdrIdle /\ ReadIdle /\ ZIdle
InitZ == ZInit /\ NormIdle /\ HdrIdle /\ ReadIdle /\ MainIdle

\* _norm applied to a value, and to its own result
SpecNorm == InitNorm /\ [][NormNext]_vars

\* find_header_row applied to a sheet and a scan window
SpecHeader == InitHeader /\ [][HdrNext]_vars

\* read_firm_sheet applied to a sheet
SpecRead == InitRead /\ [][ReadNext]_vars

\* main run on two workbooks
SpecMain == InitMain /\ [][MainNext]_vars

\* add_esg_zscores applied to a panel
SpecZ == InitZ /\ [][ZNext]_vars

====
